---- MODULE Spec2Model ----
(***************************************************************************)
(* imagine.py: a pandoc filter that dispatches fenced code blocks to       *)
(* handler classes, runs an external program and assembles the replacement *)
(* node.  Text (class tags, attribute keys and values, code, arguments,    *)
(* paths) is a sequence of one-character strings; the filesystem is a      *)
(* function from paths to contents; the external program is the            *)
(* environment's nondeterministic choice.                                  *)
(***************************************************************************)
EXTENDS Integers, Sequences, FiniteSets, TLC

VARIABLES klass, files, cur, prev, ncalls

vars == <<klass, files, cur, prev, ncalls>>

\* ------------------------------------------------------------------ bounds
\* number of code blocks the walker is handed in one filter run
MaxCalls == 2

\* ---------------------------------------------------------------- literals
s_imagine == <<"i", "m", "a", "g", "i", "n", "e">>
s_figlet == <<"f", "i", "g", "l", "e", "t">>
s_boxes == <<"b", "o", "x", "e", "s">>
s_protocol == <<"p", "r", "o", "t", "o", "c", "o", "l">>
s_plot == <<"p", "l", "o", "t">>
s_graph == <<"g", "r", "a", "p", "h">>
s_gnugraph == <<"g", "n", "u", "g", "r", "a", "p", "h">>
s_pic2plot == <<"p", "i", "c", "2", "p", "l", "o", "t">>
s_pic == <<"p", "i", "c">>
s_plantuml == <<"p", "l", "a", "n", "t", "u", "m", "l">>
s_mermaid == <<"m", "e", "r", "m", "a", "i", "d">>
s_ditaa == <<"d", "i", "t", "a", "a">>
s_mscgen == <<"m", "s", "c", "g", "e", "n">>
s_blockdiag == <<"b", "l", "o", "c", "k", "d", "i", "a", "g">>
s_seqdiag == <<"s", "e", "q", "d", "i", "a", "g">>
s_rackdiag == <<"r", "a", "c", "k", "d", "i", "a", "g">>
s_nwdiag == <<"n", "w", "d", "i", "a", "g">>
s_packetdiag == <<"p", "a", "c", "k", "e", "t", "d", "i", "a", "g">>
s_actdiag == <<"a", "c", "t", "d", "i", "a", "g">>
s_dot == <<"d", "o", "t">>
s_neato == <<"n", "e", "a", "t", "o">>
s_twopi == <<"t", "w", "o", "p", "i">>
s_circo == <<"c", "i", "r", "c", "o">>
s_fdp == <<"f", "d", "p">>
s_sfdp == <<"s", "f", "d", "p">>
s_graphviz == <<"g", "r", "a", "p", "h", "v", "i", "z">>
k_options == <<"o", "p", "t", "i", "o", "n", "s">>
k_prog == <<"p", "r", "o", "g">>
k_keep == <<"k", "e", "e", "p">>
k_caption == <<"c", "a", "p", "t", "i", "o", "n">>
s_true == <<"t", "r", "u", "e">>
s_png == <<"p", "n", "g">>
s_txt == <<"t", "x", "t">>
s_fig == <<"f", "i", "g", ":">>
IMG_BASEDIR == <<"p", "d">>

\* Python's None: a value no text equals (text is made of one-character strings)
None == <<"<None>">>

\* the module's help text, the body Imagine.image puts into its CodeBlock
DocText == <<"<__doc__>">>

\* --------------------------------------------------------- string functions
UpperAlpha == <<"A","B","C","D","E","F","G","H","I","J","K","L","M",
                "N","O","P","Q","R","S","T","U","V","W","X","Y","Z">>
LowerAlpha == <<"a","b","c","d","e","f","g","h","i","j","k","l","m",
                "n","o","p","q","r","s","t","u","v","w","x","y","z">>

\* the lowercase form of each uppercase letter
ToLower == [c \in {UpperAlpha[i] : i \in DOMAIN UpperAlpha} |->
               LowerAlpha[CHOOSE i \in DOMAIN UpperAlpha : UpperAlpha[i] = c]]

LowerChar(c) == IF c \in DOMAIN ToLower THEN ToLower[c] ELSE c

\* str.lower()
Lower(s) == [i \in DOMAIN s |-> LowerChar(s[i])]

Whitespace == {" ", "\t", "\n"}

RECURSIVE SplitFrom(_, _, _)
SplitFrom(s, tok, acc) ==
    IF s = <<>>
    THEN IF tok = <<>> THEN acc ELSE Append(acc, tok)
    ELSE IF Head(s) \in Whitespace
         THEN SplitFrom(Tail(s), <<>>, IF tok = <<>> THEN acc ELSE Append(acc, tok))
         ELSE SplitFrom(Tail(s), Append(tok, Head(s)), acc)

\* str.split(): the maximal runs of non-whitespace characters, in order
Split(s) == SplitFrom(s, <<>>, <<>>)

RECURSIVE Join(_, _)
\* sep.join(parts)
Join(sep, parts) ==
    IF parts = <<>> THEN <<>>
    ELSE IF Len(parts) = 1 THEN parts[1]
    ELSE parts[1] \o sep \o Join(sep, Tail(parts))

\* [a for a in parts if a]
NonEmpty(parts) == SelectSeq(parts, LAMBDA a : a # <<>>)

\* bool(x) of a text or None
Truthy(x) == x # None /\ x # <<>>

\* code.encode(sys.getfilesystemencoding()), the encoding being UTF-8
\* "U+00E9" is the one non-ASCII character of the model's alphabet
EncodeChar(c) == IF c = "U+00E9" THEN <<"0xC3", "0xA9">> ELSE <<c>>

RECURSIVE Encode(_)
Encode(s) == IF s = <<>> THEN <<>> ELSE EncodeChar(Head(s)) \o Encode(Tail(s))

\* ------------------------------------------------------------ pandocfilters
RECURSIVE LastValue(_, _, _)
LastValue(kv, key, value) ==
    IF kv = <<>> THEN value
    ELSE LastValue(Tail(kv), key, IF Head(kv)[1] = key THEN Head(kv)[2] ELSE value)

\* pf.get_value(kv, key, value): (the value of the last matching key, or the
\* default; kv with every occurrence of the key removed)
get_value(kv, key, value) ==
    <<LastValue(kv, key, value), SelectSeq(kv, LAMBDA p : p[1] # key)>>

\* pf.get_caption(kv): (caption, typef, kv without caption)
get_caption(kv) ==
    LET r == get_value(kv, k_caption, None)
    IN  IF r[1] # None THEN <<r[1], s_fig, r[2]>> ELSE <<<<>>, <<>>, r[2]>>

\* pf.get_extension(fmt, default, **specials)
get_extension(fmt, default, specials) ==
    IF fmt \in DOMAIN specials THEN specials[fmt] ELSE default

\* no variant passes specials to Handler.fmt
NoSpecials == [f \in {} |-> <<>>]

\* pf.get_filename4code(module, content): module + "-images/" + sha1(content);
\* the digest is one token, a function of the hashed string alone
get_filename4code(module, content) ==
    module \o <<"-", "i", "m", "a", "g", "e", "s", "/">> \o <<content>>

\* str(codec)
Str(codec) == ToString(codec)

\* ------------------------------------------------- handler classes, registry
\* the classes the module defines, in definition order
ClassOrder == <<"Handler", "Imagine", "Figlet", "Boxes", "Protocol", "PlotUtilPlot",
                "PlotUtilsGraph", "Pic2Plot", "PlantUml", "Mermaid", "Ditaa",
                "MscGen", "BlockDiag", "Graphviz">>

Classes == {ClassOrder[i] : i \in DOMAIN ClassOrder}

\* zip(progs, progs)
SelfMap(progs) == [t \in progs |-> t]

\* the class attribute codecs: klass -> cli-program
codecs(cls) ==
    CASE cls = "Imagine"        -> (s_imagine :> s_imagine)
      [] cls = "Figlet"         -> (s_figlet :> s_figlet)
      [] cls = "Boxes"          -> (s_boxes :> s_boxes)
      [] cls = "Protocol"       -> (s_protocol :> s_protocol)
      [] cls = "PlotUtilPlot"   -> (s_plot :> s_plot)
      [] cls = "PlotUtilsGraph" -> (s_graph :> s_graph) @@ (s_gnugraph :> s_graph)
      [] cls = "Pic2Plot"       -> (s_pic2plot :> s_pic2plot) @@ (s_pic :> s_pic2plot)
      [] cls = "PlantUml"       -> (s_plantuml :> s_plantuml)
      [] cls = "Mermaid"        -> (s_mermaid :> s_mermaid)
      [] cls = "Ditaa"          -> (s_ditaa :> s_ditaa)
      [] cls = "MscGen"         -> (s_mscgen :> s_mscgen)
      [] cls = "BlockDiag"      -> SelfMap({s_blockdiag, s_seqdiag, s_rackdiag,
                                            s_nwdiag, s_packetdiag, s_actdiag})
      [] cls = "Graphviz"       -> (s_graphviz :> s_dot) @@
                                   SelfMap({s_dot, s_neato, s_twopi, s_circo, s_fdp, s_sfdp})
      [] OTHER                  -> [t \in {} |-> <<>>]

\* HandlerMeta.__init__: cls.workers[klass.lower()] = cls for each klass of codecs
HandlerMeta_init(ws, cls) ==
    LET keys == {Lower(t) : t \in DOMAIN codecs(cls)}
    IN  [k \in DOMAIN ws \cup keys |-> IF k \in keys THEN cls ELSE ws[k]]

RECURSIVE Register(_, _)
Register(ws, order) ==
    IF order = <<>> THEN ws ELSE Register(HandlerMeta_init(ws, Head(order)), Tail(order))

\* Handler.workers once every class is defined
workers == Register([k \in {} |-> "Handler"], ClassOrder)

\* Handler.klass = None, inherited by every class until __call__ assigns it
KlassInit == [c \in Classes |-> None]

\* ------------------------------------------------------------------ dispatch
RECURSIVE FirstRegistered(_)
\* the for loop of __call__: the first class whose lowercase form is registered
FirstRegistered(klasses) ==
    IF klasses = <<>> THEN None
    ELSE IF Lower(Head(klasses)) \in DOMAIN workers THEN Head(klasses)
    ELSE FirstRegistered(Tail(klasses))

\* a slip: the class attribute is assigned only while it is still None
AssignKlass_once(kl, worker, k) ==
    IF kl[worker] = None THEN [kl EXCEPT ![worker] = Lower(k)] ELSE kl

\* worker.klass = klass.lower()
AssignKlass(kl, worker, k) == [kl EXCEPT ![worker] = Lower(k)]

\* a slip: the prog key is looked up before the classes
Handler_call_progFirst(codec, kl) ==
    LET m == FirstRegistered(codec.classes)
        prog == get_value(codec.keyvals, k_prog, <<>>)[1]
    IN  IF Len(codec.keyvals) # 0 /\ Lower(prog) \in DOMAIN workers
        THEN [worker |-> workers[Lower(prog)], via |-> "prog", klass |-> kl]
        ELSE IF m # None
        THEN [worker |-> workers[Lower(m)], via |-> "class",
              klass |-> AssignKlass(kl, workers[Lower(m)], m)]
        ELSE [worker |-> "Handler", via |-> "default", klass |-> kl]

\* Handler.__call__ up to the construction of the worker: the class chosen (Handler
\* is the instance itself), the class attributes klass afterwards, the tier
Handler_call(codec, kl) ==
    LET m == FirstRegistered(codec.classes)
        prog == get_value(codec.keyvals, k_prog, <<>>)[1]
    IN  IF m # None
        THEN [worker |-> workers[Lower(m)], via |-> "class",
              klass |-> AssignKlass(kl, workers[Lower(m)], m)]
        ELSE IF Len(codec.keyvals) = 0
        THEN [worker |-> "Handler", via |-> "default", klass |-> kl]
        ELSE IF Lower(prog) \in DOMAIN workers
        THEN [worker |-> workers[Lower(prog)], via |-> "prog", klass |-> kl]
        ELSE [worker |-> "Handler", via |-> "default", klass |-> kl]

\* ---------------------------------------------------------------- filesystem
\* os.path.isfile(p)
isfile(fs, p) == p \in DOMAIN fs

\* a slip: the output file of a failed run is left behind
Remove_nothing(fs, p) == fs

\* os.remove(p) inside try/except: pass (removing a missing file raises, swallowed)
Remove(fs, p) == [q \in DOMAIN fs \ {p} |-> fs[q]]

\* os.rename(src, dst) inside try/except: pass
Rename(fs, src, dst) ==
    IF isfile(fs, src) THEN (dst :> fs[src]) @@ Remove(fs, src) ELSE fs

\* a slip: zero bytes are written like any others
Handler_write_zero(dta, dst, fs, env) ==
    IF env.disk = "ok" THEN (dst :> dta) @@ fs ELSE fs

\* Handler.write: nothing for zero bytes; a failing open leaves the disk as it was
Handler_write(dta, dst, fs, env) ==
    IF Len(dta) = 0 THEN fs
    ELSE IF env.disk = "ok" THEN (dst :> dta) @@ fs
    ELSE fs

\* ---------------------------------------------------------- Handler.__init__
\* a slip: the program of the class tag is preferred to the prog key
ResolveProg_klassFirst(prog, cls, k) ==
    IF k \in DOMAIN codecs(cls) THEN codecs(cls)[k]
    ELSE IF Truthy(prog) THEN prog ELSE None

\* self.prog if self.prog else self.codecs.get(self.klass, None)
ResolveProg(prog, cls, k) ==
    IF Truthy(prog) THEN prog
    ELSE IF k \in DOMAIN codecs(cls) THEN codecs(cls)[k] ELSE None

IsTrue(keep) == Lower(keep) = s_true

\* Handler.__init__(codec) of class cls: raised (the configuration error), the
\* instance attributes, the disk afterwards
Handler_init(cls, codec, kl, fs, env) ==
    LET cap  == get_caption(codec.keyvals)
        opt  == get_value(cap[3], k_options, <<>>)
        prg  == get_value(opt[2], k_prog, None)
        kp   == get_value(prg[2], k_keep, <<>>)
        prog == ResolveProg(prg[1], cls, kl[cls])
        base == get_filename4code(IMG_BASEDIR, Str(codec))
        inp  == base \o <<".">> \o s_txt
        txt  == Encode(codec.code)
        self == [name |-> cls, codec |-> codec, id_ |-> codec.id,
                 classes |-> codec.classes, keyvals |-> kp[2], code |-> codec.code,
                 caption |-> cap[1], typef |-> cap[2], options |-> opt[1],
                 prog |-> prog, keep |-> IsTrue(kp[1]), basename |-> base,
                 fext |-> s_png, outfile |-> base \o <<".">> \o s_png,
                 inpfile |-> inp, codetxt |-> txt, output |-> <<>>]
    IN  IF prog = None
        THEN [raised |-> TRUE, self |-> self, files |-> fs]
        ELSE [raised |-> FALSE, self |-> self,
              files |-> IF ~isfile(fs, inp) THEN Handler_write(txt, inp, fs, env) ELSE fs]

\* Handler.fmt(fmt, default): sets fext and outfile
Handler_fmt(self, fmt, default) ==
    LET ext == get_extension(fmt, default, NoSpecials)
    IN  [self EXCEPT !.fext = ext, !.outfile = self.basename \o <<".">> \o ext]

\* ------------------------------------------------------------------ the nodes
Node(t, id, classes, keyvals, caption, target, typef, text) ==
    [t |-> t, id |-> id, classes |-> classes, keyvals |-> keyvals,
     caption |-> caption, target |-> target, typef |-> typef, text |-> text]

\* pf.CodeBlock(attr, code), attr = (id, classes, keyvals)
pf_CodeBlock(id, classes, keyvals, code) ==
    Node("CodeBlock", id, classes, keyvals, <<>>, <<>>, <<>>, code)

\* the three backquotes of a fence (the character itself cannot be written in a string)
Fence == <<"BACKQUOTE", "BACKQUOTE", "BACKQUOTE">>

\* Handler.AnonCodeBlock: the original block, fenced, inside an attribute-less CodeBlock
Handler_AnonCodeBlock(self) ==
    LET c       == self.codec
        id_     == IF c.id # <<>> THEN <<"#">> \o c.id ELSE c.id
        klasses == Join(<<" ">>, [i \in DOMAIN c.classes |-> <<".">> \o c.classes[i]])
        keyvals == Join(<<" ">>, [i \in DOMAIN c.keyvals |->
                       c.keyvals[i][1] \o <<"=", "\"">> \o c.keyvals[i][2] \o <<"\"">>])
        attr    == <<"{">> \o Join(<<" ">>, NonEmpty(<<id_, klasses, keyvals>>)) \o <<"}">>
    IN  pf_CodeBlock(<<>>, <<>>, <<>>,
                     Fence \o attr \o <<"\n">> \o self.code \o <<"\n">> \o Fence)

\* what image() hands back to the walker
RetNone == [kind |-> "None", nodes |-> <<>>, exc |-> ""]
RetRaise(e) == [kind |-> "Raise", nodes |-> <<>>, exc |-> e]
RetNode(n) == [kind |-> "Node", nodes |-> <<n>>, exc |-> ""]
RetList(ns) == [kind |-> "List", nodes |-> ns, exc |-> ""]

\* if self.keep: return [self.AnonCodeBlock(), retval]
Keep(self, retval) ==
    IF self.keep THEN RetList(<<Handler_AnonCodeBlock(self), retval>>) ELSE RetNode(retval)

\* Handler.Para: Para([Image([id_, classes, keyvals], caption, [outfile, typef])])
Handler_Para(self) ==
    Keep(self, Node("Para", self.id_, self.classes, self.keyvals, self.caption,
                    self.outfile, self.typef, <<>>))

\* Handler.CodeBlock(attr, code) with attr = self.codec[0]
Handler_CodeBlock(self, code) ==
    Keep(self, pf_CodeBlock(self.codec.id, self.codec.classes, self.codec.keyvals, code))

\* ------------------------------------------------------ the external program
\* what one run of the external program does: its exit, the bytes it prints, whether
\* it writes the file its arguments name, and whether the disk accepts writes
Outputs == {<<>>, <<"a", "r", "t">>}

Envs == [exit : {"zero", "nonzero"}, output : Outputs, wrote : BOOLEAN, disk : {"ok"}]
        \cup [exit : {"zero"}, output : {<<"a", "r", "t">>}, wrote : {TRUE}, disk : {"fail"}]
        \cup [exit : {"notfound"}, output : {<<>>}, wrote : {FALSE}, disk : {"ok"}]

\* the program writes (all or part of) the file its arguments name, if any
ProgramWrites(target, fs, env) ==
    IF env.wrote /\ target # None THEN (target :> (<<"%">> \o env.output)) @@ fs ELSE fs

\* Handler.cmd(*args): ok is the return value, raised an OSError of check_output
\* (the program cannot be launched), launched the number of check_output calls
Handler_cmd(self, args, target, fs, env) ==
    IF isfile(fs, self.outfile)
    THEN [ok |-> TRUE, raised |-> FALSE, output |-> self.output, files |-> fs,
          launched |-> 0, args |-> <<>>]
    ELSE CASE env.exit = "zero" ->
                [ok |-> TRUE, raised |-> FALSE, output |-> env.output,
                 files |-> ProgramWrites(target, fs, env), launched |-> 1, args |-> args]
           [] env.exit = "nonzero" ->
                [ok |-> FALSE, raised |-> FALSE, output |-> self.output,
                 files |-> Remove(ProgramWrites(target, fs, env), self.outfile),
                 launched |-> 1, args |-> args]
           [] OTHER ->
                [ok |-> FALSE, raised |-> TRUE, output |-> self.output, files |-> fs,
                 launched |-> 1, args |-> args]

\* ---------------------------------------------------------------- image(fmt)
\* the outcome of image(): the value returned (or the exception), the disk, the
\* program launches and the argument list of the launch
Outcome(ret, fs, launched, args) ==
    [ret |-> ret, files |-> fs, launched |-> launched, args |-> args]

\* if self.cmd(...): return <node>   (falls through to None otherwise)
IfCmd(c, node, fs) ==
    Outcome(IF c.raised THEN RetRaise("OSError") ELSE IF c.ok THEN node ELSE RetNone,
            fs, c.launched, c.args)

\* a slip: the default hands the block back as a node (the alternative the source
\* comments out) instead of None
Handler_image_node(self, fmt, fs, env) ==
    Outcome(RetNode(pf_CodeBlock(<<>>, <<>>, <<>>, <<>>)), fs, 0, <<>>)

\* Handler.image: the default keeps the CodeBlock
Handler_image(self, fmt, fs, env) == Outcome(RetNone, fs, 0, <<>>)

Imagine_image(self, fmt, fs, env) ==
    Outcome(RetNode(pf_CodeBlock(<<>>, <<s_imagine>>, <<>>, DocText)), fs, 0, <<>>)

Figlet_image(self, fmt, fs, env) ==
    LET args == Split(self.options) \o <<self.codetxt>>
        c    == Handler_cmd(self, <<self.prog>> \o args, None, fs, env)
    IN  IfCmd(c, Handler_CodeBlock(self, c.output), c.files)

Boxes_image(self, fmt, fs, env) ==
    LET args == Split(self.options) \o <<self.inpfile>>
        c    == Handler_cmd(self, <<self.prog>> \o args, None, fs, env)
    IN  IfCmd(c, Handler_CodeBlock(self, c.output), c.files)

Protocol_image(self, fmt, fs, env) ==
    LET args == Split(self.options) \o <<self.codetxt>>
        c    == Handler_cmd(self, <<self.prog>> \o args, None, fs, env)
    IN  IfCmd(c, Handler_CodeBlock(self, c.output), c.files)

\* the graphics tools that print the image: cmd, then write the output to outfile
PrintedImage(self, args, fs, env) ==
    LET c == Handler_cmd(self, args, None, fs, env)
    IN  IfCmd(c, Handler_Para(self),
              IF c.ok THEN Handler_write(c.output, self.outfile, c.files, env) ELSE c.files)

PlotUtilPlot_image(self0, fmt, fs, env) ==
    LET self == Handler_fmt(self0, fmt, s_png)
        args == Split(self.options) \o <<self.codetxt>>
    IN  IF ~isfile(fs, self.codetxt)
        THEN Outcome(RetNone, fs, 0, <<>>)
        ELSE PrintedImage(self, <<self.prog, <<"-", "T">>, self.fext>> \o args, fs, env)

PlotUtilsGraph_image(self0, fmt, fs, env) ==
    LET self == Handler_fmt(self0, fmt, s_png)
        args == Split(self.options) \o <<self.inpfile>>
    IN  PrintedImage(self, <<self.prog, <<"-", "T">>, self.fext>> \o args, fs, env)

Pic2Plot_image(self0, fmt, fs, env) ==
    LET self == Handler_fmt(self0, fmt, s_png)
        args == Split(self.options) \o <<self.inpfile>>
    IN  PrintedImage(self, <<self.prog, <<"-", "T">>, self.fext>> \o args, fs, env)

\* plantuml writes the image beside its input, under the input's name with the
\* extension of the format
PlantUml_image(self0, fmt, fs, env) ==
    LET self == Handler_fmt(self0, fmt, s_png)
        c    == Handler_cmd(self, <<self.prog, <<"-", "t">> \o self.fext, self.inpfile>>,
                            self.basename \o <<".">> \o self.fext, fs, env)
    IN  IfCmd(c, Handler_Para(self), c.files)

\* mermaid writes <input>.<ext> into the directory given by -o; image() renames it
Mermaid_image(self0, fmt, fs, env) ==
    LET self == Handler_fmt(self0, fmt, s_png)
        args == Split(self.options) \o <<self.inpfile>>
        made == self.inpfile \o <<".">> \o self.fext
        c    == Handler_cmd(self, <<self.prog, <<"-", "o">>,
                                    IMG_BASEDIR \o <<"-", "i", "m", "a", "g", "e", "s">>>> \o args,
                            made, fs, env)
    IN  IfCmd(c, Handler_Para(self),
              IF c.ok THEN Rename(c.files, made, self.outfile) ELSE c.files)

Ditaa_image(self0, fmt, fs, env) ==
    LET self == Handler_fmt(self0, fmt, s_png)
        c    == Handler_cmd(self, <<self.prog, self.inpfile, self.outfile, <<"-", "T">>,
                                    self.options>>, self.outfile, fs, env)
    IN  IfCmd(c, Handler_Para(self), c.files)

MscGen_image(self0, fmt, fs, env) ==
    LET self == Handler_fmt(self0, fmt, s_png)
        c    == Handler_cmd(self, <<self.prog, <<"-", "T">>, self.fext, <<"-", "o">>,
                                    self.outfile, self.inpfile>>, self.outfile, fs, env)
    IN  IfCmd(c, Handler_Para(self), c.files)

BlockDiag_image(self0, fmt, fs, env) ==
    LET self == Handler_fmt(self0, fmt, s_png)
        c    == Handler_cmd(self, <<self.prog, <<"-", "T">>, self.fext, self.inpfile,
                                    <<"-", "o">>, self.outfile>>, self.outfile, fs, env)
    IN  IfCmd(c, Handler_Para(self), c.files)

Graphviz_image(self0, fmt, fs, env) ==
    LET self == Handler_fmt(self0, fmt, s_png)
        args == Split(self.options) \o <<<<"-", "T">> \o self.fext>>
                    \o <<self.inpfile, <<"-", "o">>, self.outfile>>
        c    == Handler_cmd(self, <<self.prog>> \o args, self.outfile, fs, env)
    IN  IfCmd(c, Handler_Para(self), c.files)

\* worker.image(fmt): the method of the worker's class
image(cls, self, fmt, fs, env) ==
    CASE cls = "Imagine"        -> Imagine_image(self, fmt, fs, env)
      [] cls = "Figlet"         -> Figlet_image(self, fmt, fs, env)
      [] cls = "Boxes"          -> Boxes_image(self, fmt, fs, env)
      [] cls = "Protocol"       -> Protocol_image(self, fmt, fs, env)
      [] cls = "PlotUtilPlot"   -> PlotUtilPlot_image(self, fmt, fs, env)
      [] cls = "PlotUtilsGraph" -> PlotUtilsGraph_image(self, fmt, fs, env)
      [] cls = "Pic2Plot"       -> Pic2Plot_image(self, fmt, fs, env)
      [] cls = "PlantUml"       -> PlantUml_image(self, fmt, fs, env)
      [] cls = "Mermaid"        -> Mermaid_image(self, fmt, fs, env)
      [] cls = "Ditaa"          -> Ditaa_image(self, fmt, fs, env)
      [] cls = "MscGen"         -> MscGen_image(self, fmt, fs, env)
      [] cls = "BlockDiag"      -> BlockDiag_image(self, fmt, fs, env)
      [] cls = "Graphviz"       -> Graphviz_image(self, fmt, fs, env)
      [] OTHER                  -> Handler_image(self, fmt, fs, env)

\* -------------------------------------------------------------------- walker
\* the record of one walker call: the block, what dispatch chose, the attributes of
\* the worker, the outcome of image(), how the launched program ended ("" when none
\* was launched) and the disk before the call
Call(codec, d, self, o, env, before) ==
    [codec |-> codec, worker |-> d.worker, via |-> d.via, prog |-> self.prog,
     keep |-> self.keep, outfile |-> self.outfile, inpfile |-> self.inpfile,
     ret |-> o.ret, launched |-> o.launched, args |-> o.args,
     exit |-> IF o.launched = 1 THEN env.exit ELSE "", before |-> before]

\* a call that reaches no program
NoEnv == [exit |-> "", output |-> <<>>, wrote |-> FALSE, disk |-> "ok"]

\* the attributes of the instance dispatch = Handler(None), as far as a call records them
NoSelf == [prog |-> None, keep |-> FALSE, outfile |-> None, inpfile |-> None]

NoCodec == [id |-> None, classes |-> <<>>, keyvals |-> <<>>, code |-> <<>>]

NoDispatch == [worker |-> "", via |-> "", klass |-> KlassInit]

NoCall == Call(NoCodec, NoDispatch, NoSelf, Outcome(RetNone, <<>>, 0, <<>>), NoEnv, <<>>)

\* walker on a CodeBlock: worker = dispatch(value); return worker.image(fmt)
walker(value, fmt, env, kl, fs) ==
    LET d == Handler_call(value, kl)
        h == Handler_init(d.worker, value, d.klass, fs, env)
    IN  IF d.worker = "Handler"
        THEN [klass |-> d.klass, files |-> fs,
              call |-> Call(value, d, NoSelf, Handler_image(NoSelf, fmt, fs, env), NoEnv, fs)]
        ELSE IF h.raised
        THEN [klass |-> d.klass, files |-> h.files,
              call |-> Call(value, d, h.self,
                            Outcome(RetRaise("Exception"), h.files, 0, <<>>), NoEnv, fs)]
        ELSE LET o == image(d.worker, h.self, fmt, h.files, env)
             IN  [klass |-> d.klass, files |-> o.files,
                  call |-> Call(value, d, h.self, o, env, fs)]

\* -------------------------------------------------------------------- inputs
Codec(id, classes, keyvals, code) ==
    [id |-> id, classes |-> classes, keyvals |-> keyvals, code |-> code]

s_HI == <<"H", "I">>
s_text == <<"t", "e", "x", "t">>

\* a file of the user's, which a plot block names as its input
DataFile == <<"d", "a", "t", "a">>

\* one class tag for every handler class
VariantTags == {s_imagine, s_figlet, s_boxes, s_protocol, s_plot, s_gnugraph, s_pic,
                s_plantuml, s_mermaid, s_ditaa, s_mscgen, s_seqdiag, s_graphviz}

AttrLists == {<< <<k_options, <<" ", "-", "a", " ", " ", "-", "b">> >>,
                 <<k_keep, <<"T", "r", "u", "e">> >> >>,
              << <<k_keep, <<"y", "e", "s">> >>, <<k_options, <<" ">> >> >>}

\* the code blocks of the documents: every handler class, with and without options
\* and keep; empty code; a plot block naming a missing file; non-ASCII code; an
\* identified block; a block no handler answers to
Blocks ==
    {Codec(<<>>, <<t>>, kv, IF t = s_plot THEN DataFile ELSE s_HI)
        : t \in VariantTags, kv \in AttrLists}
    \cup {Codec(<<>>, <<s_figlet>>, <<>>, s_HI),
          Codec(<<>>, <<s_graphviz>>, <<>>, s_HI),
          Codec(<<>>, <<s_figlet>>, <<>>, <<>>),
          Codec(<<>>, <<s_plot>>, <<>>, s_HI),
          Codec(<<>>, <<s_boxes>>, <<>>, <<"U+00E9">>),
          Codec(<<"i", "d">>, <<s_dot>>, << <<k_keep, s_true>>, <<k_caption, s_HI>> >>, s_HI),
          Codec(<<>>, <<s_text>>, <<>>, s_HI)}

Formats == {<<"h", "t", "m", "l">>, <<"l", "a", "t", "e", "x">>}

\* --------------------------------------------------------------- the machine
Init ==
    /\ klass = KlassInit
    /\ files = (DataFile :> <<"m", "e", "t", "a">>)
    /\ cur = NoCall
    /\ prev = NoCall
    /\ ncalls = 0

\* an exception ends the filter
Running == cur.ret.kind # "Raise" /\ ncalls < MaxCalls

\* walker(key, value, fmt, meta) with key = 'CodeBlock'
WalkCodeBlock(value, fmt, env) ==
    /\ Running
    /\ LET w == walker(value, fmt, env, klass, files)
       IN  /\ klass' = w.klass
           /\ files' = w.files
           /\ cur' = w.call
    /\ prev' = cur
    /\ ncalls' = ncalls + 1

\* walker with any other key: returns nothing, the element is kept
WalkOther ==
    /\ Running
    /\ cur' = [NoCall EXCEPT !.before = files]
    /\ prev' = cur
    /\ ncalls' = ncalls + 1
    /\ UNCHANGED <<klass, files>>

Next ==
    \/ \E value \in Blocks, fmt \in Formats, env \in Envs : WalkCodeBlock(value, fmt, env)
    \/ WalkOther

Spec == Init /\ [][Next]_vars

\* ------------------------------------------------- blocks that probe dispatch
ClassLists == {<<>>, <<s_text>>, <<<<"D", "o", "t">>>>, <<s_graphviz>>,
               <<s_text, s_pic>>, <<s_neato, s_figlet>>, <<s_figlet, s_dot>>}

ProgLists == {<<>>,
              << <<k_prog, <<>> >> >>,
              << <<k_prog, <<"N", "e", "a", "t", "o">> >> >>,
              << <<k_prog, <<"n", "o", "p", "e">> >> >>,
              << <<k_prog, s_circo>>, <<k_keep, s_true>>, <<k_prog, s_figlet>> >>,
              << <<k_keep, s_true>> >>}

DispatchBlocks == {Codec(<<>>, cl, kv, s_HI) : cl \in ClassLists, kv \in ProgLists}

\* one successful, one failing and one impossible launch
DispatchEnvs == {e \in Envs : e.disk = "ok" /\ (e.exit = "notfound" \/ (e.wrote /\ e.output # <<>>))}

NextDispatch ==
    \/ \E value \in DispatchBlocks, fmt \in Formats, env \in DispatchEnvs :
           WalkCodeBlock(value, fmt, env)
    \/ WalkOther

SpecDispatch == Init /\ [][NextDispatch]_vars

\* ==================================================================== claims
\* the value of the last occurrence of key among the block's keyvals, else dflt
AttrOf(c, key, dflt) ==
    LET I == {i \in DOMAIN c.keyvals : c.keyvals[i][1] = key}
    IN  IF I = {} THEN dflt
        ELSE c.keyvals[CHOOSE i \in I : \A j \in I : j <= i][2]

\* the positions of the first class of the block that is a registered identifier
FirstMatch(c) ==
    {i \in DOMAIN c.classes :
        /\ Lower(c.classes[i]) \in DOMAIN workers
        /\ \A j \in 1..(i - 1) : Lower(c.classes[j]) \notin DOMAIN workers}

\* the last call was a walker call on a code block
OnBlock == cur.worker # ""

\* the last call constructed a worker (dispatch did not return the default)
OnWorker == cur.worker \notin {"", "Handler"}

\* C1: a block with a registered class is handled by an instance of the class
\* registered for its first registered class, whatever its prog key says; prog is
\* looked up only when no class is registered, and the default handler is returned
\* only when that fails too.
C1_DispatchPriority ==
    LET c == cur.codec
        p == AttrOf(c, k_prog, <<>>)
    IN  OnBlock =>
        /\ \A i \in FirstMatch(c) :
              /\ cur.via = "class"
              /\ cur.worker = workers[Lower(c.classes[i])]
              /\ cur.ret.exc # "Exception"
        /\ (FirstMatch(c) = {} /\ Lower(p) \in DOMAIN workers) =>
              (cur.via = "prog" /\ cur.worker = workers[Lower(p)])
        /\ (FirstMatch(c) = {} /\ Lower(p) \notin DOMAIN workers) =>
              (cur.via = "default" /\ cur.worker = "Handler")

\* classes = [Dot], prog = figlet went to the Graphviz handler
C1_Witness ==
    /\ cur.codec.classes = << <<"D", "o", "t">> >>
    /\ AttrOf(cur.codec, k_prog, <<>>) = s_figlet
    /\ cur.via = "class"
    /\ cur.worker = "Graphviz"

\* C2: a block with no registered class and a prog that is absent, empty or not
\* registered gets the default handler, whose image returns None without raising,
\* launching a program or touching a file.
C2_UnmatchedFallback ==
    LET c == cur.codec
    IN  (OnBlock /\ FirstMatch(c) = {} /\ Lower(AttrOf(c, k_prog, <<>>)) \notin DOMAIN workers) =>
            /\ cur.worker = "Handler"
            /\ cur.ret = RetNone
            /\ cur.launched = 0
            /\ files = cur.before

\* an unregistered class with an unregistered prog, after a call that left files
C2_Witness ==
    /\ cur.worker = "Handler"
    /\ cur.codec.classes = <<s_text>>
    /\ AttrOf(cur.codec, k_prog, <<>>) = <<"n", "o", "p", "e">>
    /\ Cardinality(DOMAIN files) > 1

\* C8: a constructed worker runs the block's last non-empty prog value, verbatim,
\* and otherwise the program its codecs give for the matched class tag; a matched
\* class decides the worker class whatever prog says.
C8_ProgramResolution ==
    LET c == cur.codec
        p == AttrOf(c, k_prog, <<>>)
    IN  OnWorker =>
        /\ IF p # <<>> THEN cur.prog = p
           ELSE \E i \in FirstMatch(c) :
                    cur.prog = codecs(cur.worker)[Lower(c.classes[i])]
        /\ cur.launched = 1 => cur.args[1] = cur.prog
        /\ \A i \in FirstMatch(c) : cur.worker = workers[Lower(c.classes[i])]

\* class graphviz without prog launched dot
C8_Witness ==
    /\ cur.codec.classes = <<s_graphviz>>
    /\ AttrOf(cur.codec, k_prog, <<>>) = <<>>
    /\ cur.launched = 1
    /\ cur.args[1] = s_dot

\* C10: whatever was dispatched before, constructing the worker chosen for a block
\* never raises the configuration error, and resolves the program it would
\* resolve were the block the first one dispatched.
C10_NoStaleKlass ==
    /\ cur.ret.exc # "Exception"
    /\ \A b \in DispatchBlocks :
          LET d  == Handler_call(b, klass)
              h  == Handler_init(d.worker, b, d.klass, files, NoEnv)
              d0 == Handler_call(b, KlassInit)
              h0 == Handler_init(d0.worker, b, d0.klass, files, NoEnv)
          IN  d.worker # "Handler" => (~h.raised /\ h.self.prog = h0.self.prog)

\* Graphviz was dispatched by class, then by prog while its klass was stale
C10_Witness ==
    /\ prev.via = "class" /\ prev.worker = "Graphviz"
    /\ cur.via = "prog" /\ cur.worker = "Graphviz"
    /\ klass["Graphviz"] # None
    /\ cur.prog = <<"N", "e", "a", "t", "o">>

RECURSIVE IsSubsequence(_, _)
\* the elements of toks occur in args, each as one element, in the order of toks
IsSubsequence(toks, args) ==
    IF toks = <<>> THEN TRUE
    ELSE IF args = <<>> THEN FALSE
    ELSE IF Head(toks) = Head(args) THEN IsSubsequence(Tail(toks), Tail(args))
    ELSE IsSubsequence(toks, Tail(args))

\* p is the path of an input file: it ends in .txt
IsInput(p) == Len(p) > 4 /\ SubSeq(p, Len(p) - 3, Len(p)) = <<".">> \o s_txt

\* the file at p is the same, or as absent, on both disks
SameFile(fs1, fs2, p) ==
    /\ isfile(fs1, p) <=> isfile(fs2, p)
    /\ isfile(fs1, p) => fs1[p] = fs2[p]

\* C3: when a block handled by a class that runs a program is processed twice in
\* sequence and the first run returned a replacement, the second run launches no
\* program, leaves the output file as it was and returns the same replacement.
C3_CacheHit ==
    (/\ ncalls = 2
     /\ cur.codec = prev.codec
     /\ cur.worker \notin {"", "Handler", "Imagine"}
     /\ prev.ret.kind \in {"Node", "List"}) =>
        /\ cur.launched = 0
        /\ cur.ret = prev.ret
        /\ SameFile(files, cur.before, cur.outfile)

C5_KeepSemantics ==
    LET n == cur.ret.nodes
    IN  cur.ret.kind \in {"Node", "List"} =>
            IF Lower(AttrOf(cur.codec, k_keep, <<>>)) = s_true
            THEN /\ cur.ret.kind = "List"
                 /\ Len(n) = 2
                 /\ n[1].t = "CodeBlock"
                 /\ n[1].id = <<>> /\ n[1].classes = <<>> /\ n[1].keyvals = <<>>
                 /\ SubSeq(n[1].text, 1, 3) = Fence
                 /\ SubSeq(n[1].text, Len(n[1].text) - 2, Len(n[1].text)) = Fence
            ELSE cur.ret.kind = "Node" /\ Len(n) = 1

\* C6: walker returns None or a replacement and never raises, whatever the launch of
\* the program does; a program that cannot be launched leaves the block as it is.
C6_NoFailureEscapes ==
    /\ cur.ret.kind # "Raise"
    /\ cur.exit = "notfound" => cur.ret = RetNone

\* C7: the arguments of every launch hold the whitespace-separated tokens of the
\* block's options, each as one argument, in order, and nothing of a blank options.
C7_OptionsPassThrough ==
    LET raw  == AttrOf(cur.codec, k_options, <<>>)
        toks == Split(raw)
    IN  cur.launched = 1 =>
            /\ IsSubsequence(toks, Tail(cur.args))
            /\ (toks = <<>> /\ raw # <<>>) => \A i \in DOMAIN cur.args : cur.args[i] # raw

\* C9: a call leaves every input file that existed before it as it was; an input
\* file on disk holds the encoded content of its block; empty content creates no
\* input file and construction completes.
C9_InputCreateOnly ==
    /\ \A p \in DOMAIN cur.before :
          IsInput(p) => (isfile(files, p) /\ files[p] = cur.before[p])
    /\ OnWorker =>
          /\ isfile(files, cur.inpfile) => files[cur.inpfile] = Encode(cur.codec.code)
          /\ cur.codec.code = <<>> =>
                (~isfile(files, cur.inpfile) /\ cur.ret.exc # "Exception")

\* after a block whose input file was written, a block with empty content was
\* constructed and its program launched
C9_Witness ==
    /\ isfile(files, prev.inpfile)
    /\ files[prev.inpfile] = prev.codec.code
    /\ OnWorker
    /\ cur.codec.code = <<>>
    /\ cur.launched = 1
    /\ ~isfile(files, cur.inpfile)

====
